---- MODULE Spec2Model ----
(***************************************************************************)
(* Model of the incident-analysis scripts of research-and-debug:           *)
(*   - fetch_schedule_reader_logs.py  (Log Sampler/Fetcher)                *)
(*   - analyze_schedule_delay.py      (Log Delay Analyzer)                 *)
(* Times are whole seconds; a delay in minutes is its delay in seconds     *)
(* over 60, so "delay_minutes < b" is computed as delay_seconds < 60 * b.  *)
(***************************************************************************)
EXTENDS Integers, Sequences, FiniteSets, TLC

VARIABLES
    \* ---- fetch_schedule_reader_logs.py ----
    fpc,          \* position of the fetcher's single flow of control
    windows,      \* fetch_logs: windows
    wi,           \* fetch_logs: i of enumerate(windows, 1)
    all_logs,     \* fetch_logs: all_logs
    logs,         \* fetch_logs_for_window: logs
    from_offset,  \* fetch_logs_for_window: from_offset
    page,         \* fetch_logs_for_window: page
    total_count,  \* fetch_logs_for_window: total_count of the last parsed page
    file,         \* contents of the output artifact (NoFile until save_logs)
    requests,     \* history: every POST issued, in order
    arrived,      \* history: every parsed page <<window, offset, hits>>, in order
    console,      \* history: the diagnostics printed, in order
    \* ---- generate_time_windows called on its own ----
    gpc,          \* "call" before the call, "done" after it
    gargs,        \* the arguments start, end, interval, duration
    gresult,      \* the list returned
    \* ---- analyze_schedule_delay.py ----
    apc,          \* position of the analyzer's main
    data,         \* main: data
    no_dedup,     \* args.no_dedup
    extracted,    \* history: data as extract_got_message_data returned it
    filter_in,    \* history: data as given to filter_valid_delays
    skipped,      \* filter_valid_delays: skipped_future, skipped_large
    stats,        \* print_statistics: the figures printed
    aconsole,     \* history: the analyzer's messages
    alogs,        \* main: logs, as load_logs returned them
    \* ---- analyze_companies_by_date.py ----
    hpc,          \* position of the histogram builder's main
    hdf,          \* load_and_filter_companies: df
    hloaded,      \* history: df as read_csv returned it
    hcounts,      \* the lengths printed after each filter
    hdaily,       \* create_histogram: daily_counts
    hout,         \* history: what ended the run abnormally, if anything
    \* ---- process_csv_graph.py ----
    ppc,          \* position of the plotter's __main__
    pdf,          \* parse_csv_and_create_graph: df
    ploaded,      \* history: df as read_csv returned it
    pcounts,      \* initial_count, removed_count, before_filter, after_filter
    pout          \* history: the plotter's messages

fvars == <<fpc, windows, wi, all_logs, logs, from_offset, page, total_count,
           file, requests, arrived, console>>
gvars == <<gpc, gargs, gresult>>
avars == <<apc, data, no_dedup, extracted, filter_in, skipped, stats, aconsole>>
hvars == <<hpc, hdf, hloaded, hcounts, hdaily, hout>>
pvars == <<ppc, pdf, ploaded, pcounts, pout>>
xvars == <<alogs, hvars, pvars>>
vars == <<fvars, gvars, avars, xvars>>

\* ------------------------------------------------------------------ bounds
\* number of sample windows of the modelled range (the source's range has 150)
NumWindows == 2

\* --------------------------------------------------------------- constants
START_TIME == 0
SAMPLE_INTERVAL == 600
SAMPLE_DURATION == 30
END_TIME == START_TIME + NumWindows * SAMPLE_INTERVAL
BATCH_SIZE == 5000
ES_MAX_OFFSET == 10000

NoFile == "no file"

Min(a, b) == IF a < b THEN a ELSE b

\* ------------------------------------------------- generate_time_windows
RECURSIVE GenLoop(_, _, _, _, _)
GenLoop(current, end, interval, duration, acc) ==
    IF current < end
    THEN GenLoop(current + interval, end, interval, duration,
                 Append(acc, <<current, Min(current + duration, end)>>))
    ELSE acc

\* faulty variant: the loop test written "current <= end"
RECURSIVE GenLoopInclusive(_, _, _, _, _)
GenLoopInclusive(current, end, interval, duration, acc) ==
    IF current <= end
    THEN GenLoopInclusive(current + interval, end, interval, duration,
                          Append(acc, <<current, Min(current + duration, end)>>))
    ELSE acc

generate_time_windows_inclusive(start, end, interval, duration) ==
    GenLoopInclusive(start, end, interval, duration, <<>>)

generate_time_windows(start, end, interval, duration) ==
    GenLoop(start, end, interval, duration, <<>>)

\* ------------------------------------------------------- the search backend
\* What a page can hold: the number of hits and the total the backend reports.
HitCounts == {0, 1, BATCH_SIZE}
Totals == {0, BATCH_SIZE, ES_MAX_OFFSET, ES_MAX_OFFSET + 2000}
\* A 200 response whose body json() rejects, or whose rawResponse has no hits.
MalformedKinds == {"not json", "rawResponse without hits"}

\* The k-th document of window w, in one of the two nesting shapes.
Hit(w, k) ==
    IF k % 2 = 0
    THEN [shape |-> "nested", ts |-> k, json |-> [message |-> w]]
    ELSE [shape |-> "flat", ts |-> k, json_message |-> w]

\* The page the backend returns for window w at offset off with n hits.
PageHits(w, off, n) == [j \in 1..n |-> Hit(w, off + j)]

\* ------------------------------------------------------- extract_log_entry
extract_log_entry(hit) ==
    IF hit.shape = "nested"
    THEN [timestamp |-> hit.ts, message |-> hit.json.message]
    ELSE [timestamp |-> hit.ts, message |-> hit.json_message]

\* ---------------------------------------------------- fetch_logs_for_window
\* faulty variant: each page's entries replace the list instead of extending it
AppendEntries_replacing(ls, hits) ==
    [j \in 1..Len(hits) |-> extract_log_entry(hits[j])]

\* for hit in hits: logs.append(extract_log_entry(hit))
AppendEntries(ls, hits) ==
    ls \o [j \in 1..Len(hits) |-> extract_log_entry(hits[j])]

\* faulty variant: a full page is taken for the last one
ShortPage_inclusive(n) == n <= BATCH_SIZE

\* faulty variant: the short-page break left out
ShortPage_never(n) == FALSE

\* if len(hits) < BATCH_SIZE: break
ShortPage(n) == n < BATCH_SIZE

\* faulty variant: the limit test written "from_offset > 10000"
SafetyStop_strict(off, total) == off >= total \/ off > ES_MAX_OFFSET

\* if from_offset >= total_count or from_offset >= 10000: ... break
SafetyStop(off, total) == off >= total \/ off >= ES_MAX_OFFSET

\* if from_offset >= 10000 and total_count > 10000: print Warning
LimitWarning(off, total) == off >= ES_MAX_OFFSET /\ total > ES_MAX_OFFSET

\* ------------------------------------------------------------------- Init
FetchIdle ==
    /\ fpc = "idle" /\ windows = <<>> /\ wi = 0 /\ all_logs = <<>>
    /\ logs = <<>> /\ from_offset = 0 /\ page = 0 /\ total_count = 0
    /\ file = NoFile /\ requests = <<>> /\ arrived = <<>> /\ console = <<>>

GenIdle == gpc = "idle" /\ gargs = <<>> /\ gresult = <<>>

NoStats == "no statistics"

AnIdle ==
    /\ apc = "idle" /\ data = <<>> /\ no_dedup = FALSE /\ extracted = <<>>
    /\ filter_in = <<>> /\ skipped = [future |-> 0, large |-> 0]
    /\ stats = NoStats /\ aconsole = <<>>

NoCounts == "no counts"

HistIdle ==
    /\ hpc = "idle" /\ hdf = <<>> /\ hloaded = <<>> /\ hcounts = NoCounts
    /\ hdaily = <<>> /\ hout = <<>>

PlotIdle ==
    /\ ppc = "idle" /\ pdf = <<>> /\ ploaded = <<>> /\ pcounts = NoCounts
    /\ pout = <<>>

OthersIdle == alogs = <<>> /\ HistIdle /\ PlotIdle

\* the fetcher, started
Init ==
    /\ fpc = "main" /\ windows = <<>> /\ wi = 0 /\ all_logs = <<>>
    /\ logs = <<>> /\ from_offset = 0 /\ page = 0 /\ total_count = 0
    /\ file = NoFile /\ requests = <<>> /\ arrived = <<>> /\ console = <<>>
    /\ GenIdle /\ AnIdle /\ OthersIdle

\* ---------------------------------------------------------------- actions
\* main -> fetch_logs, up to the for loop
FetchLogs ==
    /\ fpc = "main"
    /\ windows' = generate_time_windows(START_TIME, END_TIME,
                                        SAMPLE_INTERVAL, SAMPLE_DURATION)
    /\ all_logs' = <<>>
    /\ wi' = 1
    /\ fpc' = "loop"
    /\ UNCHANGED <<logs, from_offset, page, total_count, file, requests,
                   arrived, console, gvars, avars, xvars>>

\* one iteration of the for loop calls fetch_logs_for_window
WindowBegin ==
    /\ fpc = "loop" /\ wi <= Len(windows)
    /\ logs' = <<>>
    /\ from_offset' = 0
    /\ page' = 1
    /\ fpc' = "post"
    /\ UNCHANGED <<windows, wi, all_logs, total_count, file, requests,
                   arrived, console, gvars, avars, xvars>>

\* requests.post(build_query(start_time, end_time, from_offset))
Post ==
    /\ fpc = "post"
    /\ requests' = Append(requests,
                          [window |-> wi, from |-> from_offset, size |-> BATCH_SIZE])
    /\ fpc' = "resp"
    /\ UNCHANGED <<windows, wi, all_logs, logs, from_offset, page, total_count,
                   file, arrived, console, gvars, avars, xvars>>

\* faulty variant: response.raise_for_status() in place of the break
RespNon200_raising ==
    /\ fpc = "resp"
    /\ console' = Append(console, <<"Error", wi>>)
    /\ fpc' = "crashed"
    /\ UNCHANGED <<windows, wi, all_logs, logs, from_offset, page, total_count,
                   file, requests, arrived, gvars, avars, xvars>>

\* response.status_code != 200: print the error and break
RespNon200 ==
    /\ fpc = "resp"
    /\ console' = Append(console, <<"Error", wi>>)
    /\ fpc' = "ret"
    /\ UNCHANGED <<windows, wi, all_logs, logs, from_offset, page, total_count,
                   file, requests, arrived, gvars, avars, xvars>>

\* status 200, but response.json() or result["rawResponse"]["hits"] raises:
\* nothing catches it, the exception leaves fetch_logs and main
RespMalformed ==
    /\ fpc = "resp"
    /\ \E kind \in MalformedKinds :
           console' = Append(console, <<"Traceback", kind>>)
    /\ fpc' = "crashed"
    /\ UNCHANGED <<windows, wi, all_logs, logs, from_offset, page, total_count,
                   file, requests, arrived, gvars, avars, xvars>>

\* status 200 and a parsed body with n hits and a reported total
RespOk ==
    /\ fpc = "resp"
    /\ \E n \in HitCounts, total \in Totals :
         LET hits == PageHits(wi, from_offset, n)
             off == from_offset + Len(hits)
         IN  /\ total_count' = total
             /\ arrived' = Append(arrived, <<wi, from_offset, n>>)
             /\ IF Len(hits) = 0
                THEN /\ fpc' = "ret"
                     /\ UNCHANGED <<logs, from_offset, page, console>>
                ELSE /\ logs' = AppendEntries(logs, hits)
                     /\ from_offset' = off
                     /\ page' = page + 1
                     /\ IF ShortPage(Len(hits))
                        THEN fpc' = "ret" /\ UNCHANGED console
                        ELSE IF SafetyStop(off, total)
                        THEN /\ fpc' = "ret"
                             /\ console' = IF LimitWarning(off, total)
                                           THEN Append(console, <<"Warning", wi>>)
                                           ELSE console
                        ELSE fpc' = "post" /\ UNCHANGED console
    /\ UNCHANGED <<windows, wi, all_logs, file, requests, gvars, avars, xvars>>

\* return logs; all_logs.extend(window_logs); next window
WindowReturn ==
    /\ fpc = "ret"
    /\ all_logs' = all_logs \o logs
    /\ wi' = wi + 1
    /\ fpc' = "loop"
    /\ logs' = <<>> /\ from_offset' = 0 /\ page' = 0 /\ total_count' = 0
    /\ UNCHANGED <<windows, file, requests, arrived, console, gvars, avars, xvars>>

\* the for loop is exhausted: return all_logs; main calls save_logs
SaveLogs ==
    /\ fpc = "loop" /\ wi > Len(windows)
    /\ file' = all_logs
    /\ fpc' = "summary"
    /\ UNCHANGED <<windows, wi, all_logs, logs, from_offset, page, total_count,
                   requests, arrived, console, gvars, avars, xvars>>

\* print_summary(logs)
PrintSummary ==
    /\ fpc = "summary"
    /\ console' = Append(console, IF all_logs = <<>> THEN <<"No logs found", 0>>
                                  ELSE <<"Summary", Len(all_logs)>>)
    /\ fpc' = "done"
    /\ UNCHANGED <<windows, wi, all_logs, logs, from_offset, page, total_count,
                   file, requests, arrived, gvars, avars, xvars>>

\* ------------------------------------------------- histories, read back
ErrWindows == {console[i][2] : i \in {j \in DOMAIN console : console[j][1] = "Error"}}
WarnCount(w) == Cardinality({i \in DOMAIN console : console[i] = <<"Warning", w>>})
MalformedSeen == \E i \in DOMAIN console : console[i][1] = "Traceback"
\* the offsets requested for window w, in the order they were issued
RECURSIVE OffsetsOf(_, _)
OffsetsOf(reqs, w) ==
    IF reqs = <<>> THEN <<>>
    ELSE IF Head(reqs).window = w
         THEN <<Head(reqs).from>> \o OffsetsOf(Tail(reqs), w)
         ELSE OffsetsOf(Tail(reqs), w)
\* the records of the parsed pages ps, page after page
RECURSIVE EntriesOf(_)
EntriesOf(ps) ==
    IF ps = <<>> THEN <<>>
    ELSE LET p == ps[Len(ps)]
             hs == PageHits(p[1], p[2], p[3])
         IN  EntriesOf(SubSeq(ps, 1, Len(ps) - 1))
                 \o [j \in 1..Len(hs) |-> extract_log_entry(hs[j])]

\* ------------------------------------------------------------------ C1
\* C1: no request is ever issued with from_offset >= 10000; while a window is
\* being paged no limit warning has been printed for it, and when its
\* pagination has stopped the warning has been printed (once) exactly if
\* from_offset >= 10000 and the reported total > 10000; a window reporting
\* total 12000 with full pages stops at offset 10000 after exactly the two
\* requests at offsets 0 and 5000, with the warning.
C1_PaginationLimit ==
    /\ \A i \in DOMAIN requests : requests[i].from < ES_MAX_OFFSET
    /\ fpc \in {"post", "resp"} => WarnCount(wi) = 0
    /\ fpc = "ret" =>
         WarnCount(wi) = IF from_offset >= ES_MAX_OFFSET /\ total_count > ES_MAX_OFFSET
                         THEN 1 ELSE 0
    /\ (fpc = "ret" /\ total_count = 12000 /\ logs /= <<>>
            /\ Len(logs) = 2 * BATCH_SIZE) =>
         /\ from_offset = 10000
         /\ OffsetsOf(requests, wi) = <<0, 5000>>
         /\ console[Len(console)] = <<"Warning", wi>>

C1_Witness ==
    /\ fpc = "ret" /\ total_count = 12000 /\ from_offset = 10000
    /\ Len(logs) = 10000 /\ WarnCount(wi) = 1

\* ------------------------------------------------------------------ C3
\* C3: a non-200 response ends only its window's pagination: the step that
\* reports it goes straight to the window's return with the window's logs
\* kept, no request for that window is issued afterwards, the run never
\* dies in a window that answered non-200, the only step after a window's
\* return is the next window (or save_logs after the last one), and a run
\* that has saved has requested every window.
C3_Non200Step ==
    /\ (fpc = "resp" /\ console' = Append(console, <<"Error", wi>>)) =>
           (fpc' = "ret" /\ logs' = logs /\ all_logs' = all_logs /\ wi' = wi)
    /\ \A w \in ErrWindows : OffsetsOf(requests', w) = OffsetsOf(requests, w)
    /\ fpc = "ret" =>
           (fpc' = "loop" /\ wi' = wi + 1 /\ all_logs' = all_logs \o logs)
    /\ fpc = "loop" =>
           IF wi <= Len(windows) THEN fpc' = "post" /\ wi' = wi
           ELSE fpc' = "summary" /\ file' = all_logs

C3_Non200Inv ==
    /\ \A w \in ErrWindows : w < wi \/ (w = wi /\ fpc = "ret")
    /\ fpc \in {"summary", "done"} =>
         /\ file /= NoFile
         /\ \A w \in 1..Len(windows) : OffsetsOf(requests, w) /= <<>>

C3_Non200NotFatal == [][C3_Non200Step]_vars /\ []C3_Non200Inv

\* the first window answered non-200 and the run saved its output
C3_Witness == fpc = "done" /\ 1 \in ErrWindows /\ Len(windows) >= 2

\* ------------------------------------------------------------------ C4
\* C4: a malformed 200 response abandons its window only: the run goes on
\* (it is never ended by the unhandled exception).
C4_MalformedNotFatal == MalformedSeen => fpc /= "crashed"

\* ------------------------------------------------------------------ C5
\* C5: a parsed page of n hits advances the offset by n, and a further page of
\* the same window is requested next if and only if n >= page size and the
\* new offset is below both the reported total and 10000; otherwise the
\* window's pagination stops.
C5_Step ==
    (fpc = "resp" /\ Len(arrived') = Len(arrived) + 1) =>
        LET n == arrived'[Len(arrived')][3]
        IN  /\ from_offset' = from_offset + n
            /\ wi' = wi
            /\ fpc' \in {"post", "ret"}
            /\ fpc' = "post" <=> /\ n >= BATCH_SIZE
                                 /\ from_offset' < total_count'
                                 /\ from_offset' < 10000

C5_PagingRule == [][C5_Step]_vars

\* a second page is being requested after a full first page
C5_Witness == fpc = "post" /\ from_offset = BATCH_SIZE /\ page = 2

\* ------------------------------------------------------------------ C6
\* C6: the saved list is the records of every parsed page, in arrival order,
\* which is window order; nothing is dropped, repeated or reordered.
C6_SavedIsArrived ==
    file /= NoFile =>
        /\ file = EntriesOf(arrived)
        /\ \A i, j \in DOMAIN arrived :
               i < j => \/ arrived[i][1] < arrived[j][1]
                        \/ (arrived[i][1] = arrived[j][1] /\ arrived[i][2] < arrived[j][2])

\* a saved run in which a window's first page arrived and its second failed
C6_Witness ==
    /\ file /= NoFile
    /\ \E w \in ErrWindows : OffsetsOf(requests, w) = <<0, BATCH_SIZE>>
    /\ Len(file) >= BATCH_SIZE


Next ==
    \/ FetchLogs
    \/ WindowBegin
    \/ Post
    \/ RespNon200
    \/ RespMalformed
    \/ RespOk
    \/ WindowReturn
    \/ SaveLogs
    \/ PrintSummary

Spec == Init /\ [][Next]_vars

\* ------------------------------------------------------------------ C15
\* the program keeps running, and every request is answered
FairSpec == Spec /\ WF_vars(Next)

StrictlyIncreasing(sq) == \A i, j \in DOMAIN sq : i < j => sq[i] < sq[j]

C15_Step ==
    /\ fpc = "resp" =>
          \/ fpc' \in {"ret", "crashed"}
          \/ fpc' = "post" /\ wi' = wi /\ from_offset' >= from_offset + BATCH_SIZE
    /\ \A w \in 1..NumWindows :
          /\ Len(OffsetsOf(requests', w)) <= 2
          /\ StrictlyIncreasing(OffsetsOf(requests', w))
    /\ \A i, j \in DOMAIN requests' :
          (requests'[i].window = requests'[j].window
              /\ requests'[i].from = requests'[j].from) => i = j

\* C15: whatever the backend answers, every iteration of a window's loop
\* either stops or asks for the next page at an offset at least one page size
\* higher; a window gets at most two requests, at strictly increasing
\* offsets, no (window, offset) is requested twice, and every request issued
\* is followed by the end of its window's loop.
C15_Terminates ==
    /\ [][C15_Step]_vars
    /\ (fpc = "post") ~> (fpc \in {"ret", "crashed"})

\* the second window has had its two requests and its loop has ended
C15_Witness ==
    /\ fpc = "ret" /\ wi = 2
    /\ OffsetsOf(requests, 2) = <<0, BATCH_SIZE>>
    /\ OffsetsOf(requests, 1) = <<0, BATCH_SIZE>>


\* ==================================================== generate_time_windows
\* largest time value of the enumerated arguments
MaxT == 3

\* every combination of small values, and combinations on the scale of the
\* fetcher's sampling (seconds): 10 and 25 minute steps, 30 s to 15 min windows
SmallArgs == [start : 0..MaxT, end : 0..MaxT, interval : 1..MaxT,
              duration : 0..MaxT]
SamplingArgs == [start : {0, 600}, end : {1200, 1230, 1500},
                 interval : {600, 1500}, duration : {30, 600, 900}]

InitWin ==
    /\ gpc = "call"
    /\ gargs \in SmallArgs \cup SamplingArgs
    /\ gresult = <<>>
    /\ FetchIdle /\ AnIdle /\ OthersIdle

GenerateTimeWindows ==
    /\ gpc = "call"
    /\ gresult' = generate_time_windows(gargs.start, gargs.end,
                                        gargs.interval, gargs.duration)
    /\ gpc' = "done"
    /\ UNCHANGED <<gargs, fvars, avars, xvars>>

NextWin == GenerateTimeWindows

SpecWin == InitWin /\ [][NextWin]_vars

\* ------------------------------------------------------------------ C2
\* C2: with a positive interval the list returned holds, in increasing order,
\* exactly the windows (start + k*interval, min(start + k*interval + duration,
\* end)) for the k >= 0 with start + k*interval < end: no window starts at or
\* after end, none ends after end, the list is empty when start >= end, and
\* start 0, end 25 min, interval 10 min, duration 30 s gives the three windows
\* [0,30], [600,630], [1200,1230].
C2_Windows ==
    gpc = "done" =>
        LET s == gargs.start
            e == gargs.end
            iv == gargs.interval
            d == gargs.duration
            span == IF e > s THEN e - s ELSE 0
        IN  /\ \A k \in 0..(span + 1) :
                   (s + k * iv < e) <=> (k + 1 \in DOMAIN gresult)
            /\ \A k \in DOMAIN gresult :
                   /\ gresult[k][1] = s + (k - 1) * iv
                   /\ gresult[k][2] = Min(s + (k - 1) * iv + d, e)
                   /\ gresult[k][1] < e
                   /\ gresult[k][2] <= e
                   /\ k > 1 => gresult[k - 1][1] < gresult[k][1]
            /\ s >= e => gresult = <<>>
            /\ (s = 0 /\ e = 1500 /\ iv = 600 /\ d = 30) =>
                   gresult = << <<0, 30>>, <<600, 630>>, <<1200, 1230>> >>

C2_Witness ==
    /\ gpc = "done"
    /\ gargs = [start |-> 0, end |-> 1500, interval |-> 600, duration |-> 30]
    /\ Len(gresult) = 3

\* =================================================== analyze_schedule_delay
\* longest list of extracted entries enumerated
MaxLen == 3

SEVEN_DAYS == 7 * 24 * 60 * 60

MessageIds == {"A", "B"}
DelaySeconds == {-1, 0, 5, 9, SEVEN_DAYS, SEVEN_DAYS + 1}
Entries == [message_id : MessageIds, delay_seconds : DelaySeconds]

SeqsUpTo(S, n) == UNION {[1..k -> S] : k \in 0..n}

\* ------------------------------------------------ deduplicate_by_message_id
\* seen is the dict of the loop, held as its values in insertion order
InSeen(seen, msg_id) == \E i \in DOMAIN seen : seen[i].message_id = msg_id

\* faulty variant: seen[msg_id] = entry without the membership test
SeenPut_overwriting(seen, entry) ==
    IF InSeen(seen, entry.message_id)
    THEN [i \in DOMAIN seen |->
             IF seen[i].message_id = entry.message_id THEN entry ELSE seen[i]]
    ELSE Append(seen, entry)

\* if msg_id not in seen: seen[msg_id] = entry
SeenPut(seen, entry) ==
    IF InSeen(seen, entry.message_id) THEN seen ELSE Append(seen, entry)

RECURSIVE DedupLoop(_, _)
DedupLoop(rest, seen) ==
    IF rest = <<>> THEN seen
    ELSE DedupLoop(Tail(rest), SeenPut(seen, Head(rest)))

deduplicate_by_message_id(d) == DedupLoop(d, <<>>)

\* ------------------------------------------------------ filter_valid_delays
\* faulty variant: "delay <= 0" counted as scheduled for the future
IsFuture_inclusive(delay) == delay <= 0

IsFuture(delay) == delay < 0
IsLarge(delay) == delay > SEVEN_DAYS

\* the loop: <<valid, skipped_future, skipped_large>>
RECURSIVE FilterLoop(_, _)
FilterLoop(rest, acc) ==
    IF rest = <<>> THEN acc
    ELSE LET entry == Head(rest)
             delay == entry.delay_seconds
         IN  IF IsFuture(delay)
             THEN FilterLoop(Tail(rest), <<acc[1], acc[2] + 1, acc[3]>>)
             ELSE IF IsLarge(delay)
             THEN FilterLoop(Tail(rest), <<acc[1], acc[2], acc[3] + 1>>)
             ELSE FilterLoop(Tail(rest), <<Append(acc[1], entry), acc[2], acc[3]>>)

filter_valid_delays(d) == FilterLoop(d, <<<<>>, 0, 0>>)

\* --------------------------------------------------------- print_statistics
\* sorted(delays): ascending order
Ascending(a, b) == a < b
sorted(sq) == SortSeq(sq, Ascending)

\* sorted_delays[i], Python's 0-based indexing
At(sq, i) == sq[i + 1]

\* len(sorted_delays) // 2
MedianIndex(n) == n \div 2
\* faulty variant: the rank ceil(0.9 n) - 1 of the other nearest-rank convention
P90Index_ceil(n) == ((n * 9 + 9) \div 10) - 1

\* int(len(sorted_delays) * 0.9): the double product truncated; for every
\* length up to 2,000,000 this is the integer quotient below
P90Index(n) == (n * 9) \div 10
\* int(len(sorted_delays) * 0.99)
P99Index(n) == (n * 99) \div 100

BucketNames == {"< 1 min", "1-5 min", "5-15 min", "15-60 min", "1-6 hours",
                "> 6 hours"}

\* faulty variant: the 60-minute test written "delay <= 60"
BucketOf_inclusive(delay_seconds) ==
    IF delay_seconds < 60 * 1 THEN "< 1 min"
    ELSE IF delay_seconds < 60 * 5 THEN "1-5 min"
    ELSE IF delay_seconds < 60 * 15 THEN "5-15 min"
    ELSE IF delay_seconds <= 60 * 60 THEN "15-60 min"
    ELSE IF delay_seconds < 60 * 360 THEN "1-6 hours"
    ELSE "> 6 hours"

\* the if/elif chain over delay (minutes), given the delay in seconds
BucketOf(delay_seconds) ==
    IF delay_seconds < 60 * 1 THEN "< 1 min"
    ELSE IF delay_seconds < 60 * 5 THEN "1-5 min"
    ELSE IF delay_seconds < 60 * 15 THEN "5-15 min"
    ELSE IF delay_seconds < 60 * 60 THEN "15-60 min"
    ELSE IF delay_seconds < 60 * 360 THEN "1-6 hours"
    ELSE "> 6 hours"

\* for delay in delays: buckets[<bucket of delay>] += 1, from an empty defaultdict
BucketLoop(delays) ==
    [b \in BucketNames |->
        Cardinality({i \in DOMAIN delays : BucketOf(delays[i]) = b})]

\* the figures print_statistics prints for a non-empty data; delays are kept
\* in seconds (delay_minutes * 60)
Statistics(d) ==
    LET delays == [i \in DOMAIN d |-> d[i].delay_seconds]
        sorted_delays == sorted(delays)
        n == Len(sorted_delays)
    IN  [count |-> Len(d),
         min |-> sorted_delays[1],
         max |-> sorted_delays[n],
         p50 |-> At(sorted_delays, MedianIndex(n)),
         p90 |-> At(sorted_delays, P90Index(n)),
         p99 |-> At(sorted_delays, P99Index(n)),
         buckets |-> BucketLoop(delays)]

\* ------------------------------------------------------------ main, actions
InitAn ==
    /\ apc = "extracted"
    /\ data \in SeqsUpTo(Entries, MaxLen)
    /\ extracted = data
    /\ no_dedup \in BOOLEAN
    /\ filter_in = <<>> /\ skipped = [future |-> 0, large |-> 0]
    /\ stats = NoStats /\ aconsole = <<>>
    /\ FetchIdle /\ GenIdle /\ OthersIdle

\* faulty variant: the invalid delays are dropped before deduplication
Deduplicate_after_filter ==
    /\ apc = "extracted" /\ ~no_dedup
    /\ data' = deduplicate_by_message_id(filter_valid_delays(data)[1])
    /\ apc' = "deduped"
    /\ UNCHANGED <<no_dedup, extracted, filter_in, skipped, stats, aconsole,
                   fvars, gvars, xvars>>

\* if not args.no_dedup: data = deduplicate_by_message_id(data)
Deduplicate ==
    /\ apc = "extracted" /\ ~no_dedup
    /\ data' = deduplicate_by_message_id(data)
    /\ apc' = "deduped"
    /\ UNCHANGED <<no_dedup, extracted, filter_in, skipped, stats, aconsole,
                   fvars, gvars, xvars>>

\* --no-dedup
SkipDedup ==
    /\ apc = "extracted" /\ no_dedup
    /\ apc' = "deduped"
    /\ UNCHANGED <<data, no_dedup, extracted, filter_in, skipped, stats, aconsole,
                   fvars, gvars, xvars>>

\* data = filter_valid_delays(data)
FilterValidDelays ==
    /\ apc = "deduped"
    /\ LET r == filter_valid_delays(data)
       IN  /\ data' = r[1]
           /\ skipped' = [future |-> r[2], large |-> r[3]]
           /\ aconsole' = aconsole
                  \o (IF r[2] > 0 THEN <<"Skipped future">> ELSE <<>>)
                  \o (IF r[3] > 0 THEN <<"Skipped large">> ELSE <<>>)
    /\ filter_in' = data
    /\ apc' = "filtered"
    /\ UNCHANGED <<no_dedup, extracted, stats, fvars, gvars, xvars>>

\* print_statistics(data)
PrintStatistics ==
    /\ apc = "filtered"
    /\ IF data = <<>>
       THEN /\ aconsole' = Append(aconsole, "No data to analyze.")
            /\ stats' = NoStats
       ELSE /\ stats' = Statistics(data)
            /\ UNCHANGED aconsole
    /\ apc' = "printed"
    /\ UNCHANGED <<data, no_dedup, extracted, filter_in, skipped, fvars, gvars, xvars>>

NextAn ==
    \/ Deduplicate
    \/ SkipDedup
    \/ FilterValidDelays
    \/ PrintStatistics

SpecAn == InitAn /\ [][NextAn]_vars


\* ------------------------------------------------------------------ C7
\* the index of the first entry of sq carrying identifier id
FirstIndex(sq, id) ==
    CHOOSE i \in DOMAIN sq :
        /\ sq[i].message_id = id
        /\ \A j \in 1..(i - 1) : sq[j].message_id /= id

\* C7: deduplication returns one entry per distinct identifier of its input,
\* each the first occurrence of its identifier, in the order of those first
\* occurrences; [(A, 5), (A, 9)] keeps the entry with delay 5.
C7_FirstOccurrenceWins ==
    (apc = "deduped" /\ ~no_dedup) =>
        LET ids == {extracted[i].message_id : i \in DOMAIN extracted}
        IN  /\ Len(data) = Cardinality(ids)
            /\ {data[k].message_id : k \in DOMAIN data} = ids
            /\ \A k \in DOMAIN data :
                   data[k] = extracted[FirstIndex(extracted, data[k].message_id)]
            /\ \A k, l \in DOMAIN data :
                   k < l => FirstIndex(extracted, data[k].message_id)
                                < FirstIndex(extracted, data[l].message_id)
            /\ extracted = << [message_id |-> "A", delay_seconds |-> 5],
                              [message_id |-> "A", delay_seconds |-> 9] >>
                   => data = << [message_id |-> "A", delay_seconds |-> 5] >>

C7_Witness ==
    /\ apc = "deduped" /\ ~no_dedup
    /\ extracted = << [message_id |-> "A", delay_seconds |-> 5],
                      [message_id |-> "A", delay_seconds |-> 9] >>
    /\ Len(data) = 1 /\ data[1].delay_seconds = 5

\* ------------------------------------------------------------------ C8
ValidDelay(entry) ==
    0 <= entry.delay_seconds /\ entry.delay_seconds <= 7 * 24 * 3600

\* C8: filtering keeps, in input order, exactly the entries with
\* 0 <= delay <= 7*24*3600 seconds; the future count is the number of negative
\* delays, the large count the number of delays above 7 days, each reported
\* when positive, and kept + future + large is the input count.
C8_FilterBounds ==
    apc = "filtered" =>
        LET idx == DOMAIN filter_in
        IN  /\ data = SelectSeq(filter_in, ValidDelay)
            /\ skipped.future
                   = Cardinality({i \in idx : filter_in[i].delay_seconds < 0})
            /\ skipped.large
                   = Cardinality({i \in idx : filter_in[i].delay_seconds > 7 * 24 * 3600})
            /\ Len(data) + skipped.future + skipped.large = Len(filter_in)
            /\ \A i \in idx :
                   /\ filter_in[i].delay_seconds = -1 =>
                          \A k \in DOMAIN data : data[k].delay_seconds /= -1
                   /\ filter_in[i].delay_seconds = 7 * 24 * 3600 + 1 =>
                          \A k \in DOMAIN data : data[k].delay_seconds /= 7 * 24 * 3600 + 1
                   /\ filter_in[i].delay_seconds = 0 =>
                          \E k \in DOMAIN data : data[k] = filter_in[i]
            /\ (skipped.future > 0) <=>
                   (\E i \in DOMAIN aconsole : aconsole[i] = "Skipped future")
            /\ (skipped.large > 0) <=>
                   (\E i \in DOMAIN aconsole : aconsole[i] = "Skipped large")

\* delays -1, 0 and 7 days + 1 s were filtered: only the 0 is kept
C8_Witness ==
    /\ apc = "filtered" /\ Len(filter_in) = 3
    /\ skipped = [future |-> 1, large |-> 1]
    /\ Len(data) = 1 /\ data[1].delay_seconds = 0

\* ========================================== print_statistics on its own
\* longest enumerated list of valid entries
MaxStatLen == 3

StatDelays == {0, 59, 60, 300, 900, 3599, 3600, 21599, 21600, SEVEN_DAYS}
StatEntries == [message_id : {"A"}, delay_seconds : StatDelays]
EntryOf(delay) == [message_id |-> "A", delay_seconds |-> delay]
\* 1..10 minutes ascending, 11..1 minutes descending, 101..1 seconds descending
ExampleData ==
    { [i \in 1..10 |-> EntryOf(60 * i)],
      [i \in 1..11 |-> EntryOf(60 * (12 - i))],
      [i \in 1..101 |-> EntryOf(102 - i)] }

\* main after filter_valid_delays kept every entry of a --no-dedup run
InitStats ==
    /\ apc = "filtered"
    /\ data \in SeqsUpTo(StatEntries, MaxStatLen) \cup ExampleData
    /\ extracted = data /\ filter_in = data
    /\ no_dedup = TRUE
    /\ skipped = [future |-> 0, large |-> 0]
    /\ stats = NoStats /\ aconsole = <<>>
    /\ FetchIdle /\ GenIdle /\ OthersIdle

NextStats == PrintStatistics

SpecStats == InitStats /\ [][NextStats]_vars

DelaysOf(d) == [i \in DOMAIN d |-> d[i].delay_seconds]
\* v is what stands at 0-based index i once ds is put in ascending order
IsRank(ds, v, i) ==
    /\ Cardinality({k \in DOMAIN ds : ds[k] < v}) <= i
    /\ i < Cardinality({k \in DOMAIN ds : ds[k] <= v})

\* ------------------------------------------------------------------ C16
IdsOf(sq) == {sq[i].message_id : i \in DOMAIN sq}

\* C16: with deduplication on, the identifiers analysed are exactly those
\* whose first extracted occurrence has a valid delay, each through that first
\* occurrence; with --no-dedup they are those with any valid occurrence. For
\* [(A, -1), (A, 0)] the analysed set is empty with deduplication and
\* [(A, 0)] without.
C16_DedupBeforeFilter ==
    apc \in {"filtered", "printed"} =>
        LET first_invalid == << [message_id |-> "A", delay_seconds |-> -1],
                                [message_id |-> "A", delay_seconds |-> 0] >>
        IN  /\ ~no_dedup =>
                  /\ IdsOf(data) = {id \in IdsOf(extracted) :
                                       ValidDelay(extracted[FirstIndex(extracted, id)])}
                  /\ \A k \in DOMAIN data :
                         data[k] = extracted[FirstIndex(extracted, data[k].message_id)]
                  /\ extracted = first_invalid => data = <<>>
            /\ no_dedup =>
                  /\ IdsOf(data) = {extracted[i].message_id :
                                       i \in {j \in DOMAIN extracted : ValidDelay(extracted[j])}}
                  /\ extracted = first_invalid
                         => data = << [message_id |-> "A", delay_seconds |-> 0] >>

\* first occurrence in the future, second valid, deduplication on: nothing
\* is left to analyse
C16_Witness ==
    /\ apc = "printed" /\ ~no_dedup
    /\ extracted = << [message_id |-> "A", delay_seconds |-> -1],
                      [message_id |-> "A", delay_seconds |-> 0] >>
    /\ data = <<>>
    /\ aconsole = <<"Skipped future", "No data to analyze.">>

\* ------------------------------------------------------------------ C9
\* C9: for n >= 1 delays the median printed is the element at index n // 2 of
\* the ascending order, p90 the element at index floor(0.9 n), p99 the element
\* at index floor(0.99 n), all three indexes within 0..n-1; for 1..10 minutes
\* p90 is 10 minutes and p50 is 6 minutes.
C9_NearestRank ==
    (apc = "printed" /\ data /= <<>>) =>
        LET ds == DelaysOf(data)
            n == Len(ds)
        IN  /\ \E i \in 0..(n - 1) :
                   /\ 2 * i <= n /\ n < 2 * (i + 1)
                   /\ IsRank(ds, stats.p50, i)
            /\ \E i \in 0..(n - 1) :
                   /\ 10 * i <= 9 * n /\ 9 * n < 10 * (i + 1)
                   /\ IsRank(ds, stats.p90, i)
            /\ \E i \in 0..(n - 1) :
                   /\ 100 * i <= 99 * n /\ 99 * n < 100 * (i + 1)
                   /\ IsRank(ds, stats.p99, i)
            /\ ds = [i \in 1..10 |-> 60 * i] =>
                   stats.p90 = 60 * 10 /\ stats.p50 = 60 * 6

C9_Witness ==
    /\ apc = "printed"
    /\ DelaysOf(data) = [i \in 1..10 |-> 60 * i]
    /\ stats.p90 = 600 /\ stats.p50 = 360

\* ------------------------------------------------------------------ C10
InMinutes(ds, lo, hi) ==
    Cardinality({k \in DOMAIN ds : 60 * lo <= ds[k] /\ ds[k] < 60 * hi})

RECURSIVE SumOver(_, _)
SumOver(f, S) ==
    IF S = {} THEN 0
    ELSE LET x == CHOOSE y \in S : TRUE IN f[x] + SumOver(f, S \ {x})

\* C10: each bucket counts the delays in its half-open range of minutes
\* [0,1) [1,5) [5,15) [15,60) [60,360) [360,..): every boundary belongs to the
\* upper bucket, the six counts sum to the number of entries, exactly 60
\* minutes is counted in "1-6 hours" and exactly 360 in "> 6 hours".
C10_Buckets ==
    (apc = "printed" /\ data /= <<>>) =>
        LET ds == DelaysOf(data)
            b == stats.buckets
        IN  /\ b["< 1 min"] = Cardinality({k \in DOMAIN ds : ds[k] < 60})
            /\ b["1-5 min"] = InMinutes(ds, 1, 5)
            /\ b["5-15 min"] = InMinutes(ds, 5, 15)
            /\ b["15-60 min"] = InMinutes(ds, 15, 60)
            /\ b["1-6 hours"] = InMinutes(ds, 60, 360)
            /\ b["> 6 hours"] = Cardinality({k \in DOMAIN ds : ds[k] >= 60 * 360})
            /\ SumOver(b, BucketNames) = Len(ds)
            /\ ds = <<60 * 60>> => b["1-6 hours"] = 1 /\ b["15-60 min"] = 0
            /\ ds = <<60 * 360>> => b["> 6 hours"] = 1 /\ b["1-6 hours"] = 0

C10_Witness ==
    /\ apc = "printed" /\ DelaysOf(data) = <<3600>>
    /\ stats.buckets["1-6 hours"] = 1 /\ stats.buckets["15-60 min"] = 0


\* ================================================ analyze_companies_by_date
\* most rows of a CSV enumerated
MaxRows == 2

DAYS_BACK == 200

\* A text cell is its characters in order; a cell pandas read as NaN is Na.
Str(chars) == [na |-> FALSE, s |-> chars]
Na == [na |-> TRUE, s |-> <<>>]

Uppers == <<"A", "B", "C", "D", "E", "F", "G", "H", "I", "J", "K", "L", "M", "N", "O", "P", "Q", "R", "S", "T", "U", "V", "W", "X", "Y", "Z">>
Lowers == <<"a", "b", "c", "d", "e", "f", "g", "h", "i", "j", "k", "l", "m", "n", "o", "p", "q", "r", "s", "t", "u", "v", "w", "x", "y", "z">>
Whitespace == {" "}

\* str.lower()
LowerChar(c) ==
    IF \E i \in DOMAIN Uppers : Uppers[i] = c
    THEN Lowers[CHOOSE i \in DOMAIN Uppers : Uppers[i] = c]
    ELSE c
Lower(chars) == [i \in DOMAIN chars |-> LowerChar(chars[i])]

\* str.strip()
RECURSIVE StripLeft(_)
StripLeft(chars) ==
    IF chars /= <<>> /\ Head(chars) \in Whitespace THEN StripLeft(Tail(chars))
    ELSE chars
RECURSIVE StripRight(_)
StripRight(chars) ==
    IF chars /= <<>> /\ chars[Len(chars)] \in Whitespace
    THEN StripRight(SubSeq(chars, 1, Len(chars) - 1))
    ELSE chars
Strip(chars) == StripRight(StripLeft(chars))

\* str.contains(sub), sub free of regular-expression operators
Contains(chars, sub) ==
    \E i \in 1..(Len(chars) - Len(sub) + 1) :
        SubSeq(chars, i, i + Len(sub) - 1) = sub

excluded_names == { <<"c", "o", "m", "p", "a", "n", "y">>, <<"t", "e", "s", "t">>,
                    <<"0">> }
AUTOMATION == <<"a", "u", "t", "o", "m", "a", "t", "i", "o", "n">>

\* df["Company name"].notna() & (df["Company name"].str.strip() != "")
NameNotEmpty(name) == ~name.na /\ Strip(name.s) /= <<>>

\* faulty variant: the exact-name test without .str.strip()
NameNotExcluded_unstripped(name) == Lower(name.s) \notin excluded_names

\* ~df["Company name"].str.lower().str.strip().isin(excluded_names)
NameNotExcluded(name) == Strip(Lower(name.s)) \notin excluded_names

\* ~df["Company name"].str.lower().str.contains("automation", na=False)
NameNotAutomation(name) == ~Contains(Lower(name.s), AUTOMATION)

\* df[mask]: the rows whose "Company name" satisfies Keep, in order
RowsWhere(df, Keep(_)) ==
    LET Test(row) == Keep(row.name) IN SelectSeq(df, Test)

\* A "Create Date" cell: a date, as its age in days at run time; text that
\* pd.to_datetime rejects; or an empty cell.
DateCell(age) == [kind |-> "date", age |-> age]
BadDate == [kind |-> "text", age |-> 0]
NoDate == [kind |-> "empty", age |-> 0]

\* pd.to_datetime(df["Create Date"]) raises on the first cell it cannot parse
DatesParse(df) == \A i \in DOMAIN df : df[i].create.kind /= "text"

\* df["Create Date"] >= datetime.now() - timedelta(days=DAYS_BACK); NaT is not
RECURSIVE RecentRows(_)
RecentRows(df) ==
    IF df = <<>> THEN <<>>
    ELSE IF Head(df).create.kind = "date" /\ Head(df).create.age <= DAYS_BACK
         THEN <<Head(df)>> \o RecentRows(Tail(df))
         ELSE RecentRows(Tail(df))

\* df.groupby("Date").size(), sorted by date: <<age, count>>, oldest first
DailyCounts(df) ==
    LET ages == {df[i].create.age : i \in DOMAIN df}
        byAge == SortSeq(
            CHOOSE sq \in [1..Cardinality(ages) -> ages] :
                {sq[i] : i \in DOMAIN sq} = ages,
            LAMBDA a, b : a > b)
    IN  [k \in DOMAIN byAge |->
            <<byAge[k], Cardinality({i \in DOMAIN df : df[i].create.age = byAge[k]})>>]

CompanyNames ==
    { <<" ", "t", "E", "s", "T", " ">>,
      <<" ", " ", " ">>,
      <<" ", "T", "e", "s", "t", " ">>,
      <<"T", "E", "S", "T">>,
      <<"t", "e", "s", "t">>,
      <<"C", "o", "m", "p", "a", "n", "y">>,
      <<"0">>,
      <<" ", "0", " ">>,
      <<"A", "u", "t", "o", "m", "a", "t", "i", "o", "n", " ", "T", "e", "s", "t", " ", "C", "o">>,
      <<"T", "e", "s", "t", " ", "C", "o", "m", "p", "a", "n", "y", " ", "I", "n", "c">>,
      <<"m", "y", " ", "a", "u", "t", "o", "m", "a", "t", "i", "o", "n">>,
      <<"A", "U", "T", "O", "M", "A", "T", "I", "O", "N">>,
      <<"A", "c", "m", "e">>,
      <<"t", "e", "s", "t", "s">>,
      <<"0", "0">>,
      <<"c", "o", "m", "p", "a", "n", "y", " ", "i", "n", "c">> }

\* every name with a recent date, and a few names with the other date cells
CompanyRows ==
    [name : {Str(n) : n \in CompanyNames} \cup {Na}, create : {DateCell(10)}]
    \cup [name : {Str(<<"A", "c", "m", "e">>), Str(<<"t", "e", "s", "t">>)},
          create : {DateCell(DAYS_BACK), DateCell(DAYS_BACK + 1), BadDate, NoDate}]

InitHist ==
    /\ hpc = "loaded"
    /\ hdf \in SeqsUpTo(CompanyRows, MaxRows)
    /\ hloaded = hdf
    /\ hcounts = NoCounts /\ hdaily = <<>> /\ hout = <<>>
    /\ alogs = <<>> /\ PlotIdle /\ FetchIdle /\ GenIdle /\ AnIdle

Digits == {"0", "1", "2", "3", "4", "5", "6", "7", "8", "9"}
\* a cell read_csv reads as a number
NumericText(name) ==
    /\ ~name.na
    /\ Strip(name.s) /= <<>>
    /\ \A i \in DOMAIN Strip(name.s) : Strip(name.s)[i] \in Digits

\* read_csv gives "Company name" a string (object) dtype when the file has no
\* rows or some cell is text; a column of only empty and numeric cells is
\* numeric, and .str on it raises AttributeError
StringColumn(df) ==
    \/ df = <<>>
    \/ \E i \in DOMAIN df : ~df[i].name.na /\ ~NumericText(df[i].name)

\* lines 24-33
FilterEmptyNames ==
    /\ hpc = "loaded"
    /\ IF StringColumn(hdf)
       THEN /\ hdf' = RowsWhere(hdf, NameNotEmpty)
            /\ hcounts' = [original |-> Len(hdf), after_empty |-> Len(hdf')]
            /\ hpc' = "nonempty"
            /\ UNCHANGED hout
       ELSE /\ hpc' = "crashed"
            /\ hcounts' = [original |-> Len(hdf)]
            /\ hout' = Append(hout, "AttributeError: .str accessor")
            /\ UNCHANGED hdf
    /\ UNCHANGED <<hloaded, hdaily, alogs, pvars, fvars, gvars, avars>>

\* lines 35-39
FilterExcludedNames ==
    /\ hpc = "nonempty"
    /\ hdf' = RowsWhere(hdf, NameNotExcluded)
    /\ hcounts' = [original |-> hcounts.original, after_empty |-> hcounts.after_empty,
                   after_exact |-> Len(hdf')]
    /\ hpc' = "exact"
    /\ UNCHANGED <<hloaded, hdaily, hout, alogs, pvars, fvars, gvars, avars>>

\* lines 41-44
FilterAutomation ==
    /\ hpc = "exact"
    /\ hdf' = RowsWhere(hdf, NameNotAutomation)
    /\ hcounts' = [original |-> hcounts.original, after_empty |-> hcounts.after_empty,
                   after_exact |-> hcounts.after_exact,
                   after_automation |-> Len(hdf')]
    /\ hpc' = "named"
    /\ UNCHANGED <<hloaded, hdaily, hout, alogs, pvars, fvars, gvars, avars>>

\* lines 46-55: to_datetime raises on unparseable text; the final percentage
\* divides by original_count
FilterDate ==
    /\ hpc = "named"
    /\ IF ~DatesParse(hdf)
       THEN /\ hpc' = "crashed"
            /\ hout' = Append(hout, "ValueError: to_datetime")
            /\ UNCHANGED <<hdf, hcounts>>
       ELSE /\ hdf' = RecentRows(hdf)
            /\ hcounts' = [original |-> hcounts.original,
                           after_empty |-> hcounts.after_empty,
                           after_exact |-> hcounts.after_exact,
                           after_automation |-> hcounts.after_automation,
                           after_date_filter |-> Len(hdf')]
            /\ IF hcounts.original = 0
               THEN /\ hpc' = "crashed"
                    /\ hout' = Append(hout, "ZeroDivisionError")
               ELSE /\ hpc' = "filtered"
                    /\ UNCHANGED hout
    /\ UNCHANGED <<hloaded, hdaily, alogs, pvars, fvars, gvars, avars>>

\* create_histogram: the date range and the busiest day of an empty
\* daily_counts cannot be printed (NaT.date(), idxmax of nothing)
CreateHistogram ==
    /\ hpc = "filtered"
    /\ hdaily' = DailyCounts(hdf)
    /\ IF hdf = <<>>
       THEN /\ hpc' = "crashed"
            /\ hout' = Append(hout, "ValueError: empty daily_counts")
       ELSE /\ hpc' = "done"
            /\ UNCHANGED hout
    /\ UNCHANGED <<hdf, hloaded, hcounts, alogs, pvars, fvars, gvars, avars>>

NextHist ==
    \/ FilterEmptyNames
    \/ FilterExcludedNames
    \/ FilterAutomation
    \/ FilterDate
    \/ CreateHistogram

SpecHist == InitHist /\ [][NextHist]_vars


\* ------------------------------------------------------------------ C11
NamesOf(df) == [i \in DOMAIN df |-> df[i].name]
Name_Test_Spaced == Str(<<" ", "T", "e", "s", "t", " ">>)
Name_AutomationTestCo == Str(<<"A", "u", "t", "o", "m", "a", "t", "i", "o", "n", " ", "T", "e", "s", "t", " ", "C", "o">>)
Name_TestCompanyInc == Str(<<"T", "e", "s", "t", " ", "C", "o", "m", "p", "a", "n", "y", " ", "I", "n", "c">>)

\* the exclusion rule as the claim words it
ExcludedByName(name) ==
    \/ name.na
    \/ Strip(name.s) = <<>>
    \/ Lower(Strip(name.s)) \in {<<"c", "o", "m", "p", "a", "n", "y">>, <<"t", "e", "s", "t">>, <<"0">>}
    \/ Contains(Lower(name.s), <<"a", "u", "t", "o", "m", "a", "t", "i", "o", "n">>)

RetainedByName(row) == ~ExcludedByName(row.name)

\* C11: after the three name filters the rows left are exactly the rows whose
\* name is not missing, not blank once trimmed, not equal (trimmed, lower-cased)
\* to "company", "test" or "0", and does not contain "automation" in lower
\* case. " Test " in any case is gone, "Automation Test Co" passes the
\* exact-name step and is removed by the substring step, "Test Company Inc"
\* stays. The counts printed are the lengths after each step.
C11_NameFilters ==
    /\ hpc = "exact" =>
         \A i \in DOMAIN hloaded :
             hloaded[i].name = Name_AutomationTestCo =>
                 \E k \in DOMAIN hdf : hdf[k] = hloaded[i]
    /\ hpc = "named" =>
         /\ hdf = SelectSeq(hloaded, RetainedByName)
         /\ hcounts.original = Len(hloaded)
         /\ hcounts.after_automation = Len(hdf)
         /\ hcounts.after_automation <= hcounts.after_exact
         /\ hcounts.after_exact <= hcounts.after_empty
         /\ hcounts.after_empty <= hcounts.original
         /\ \A i \in DOMAIN hloaded :
              LET name == hloaded[i].name
                  kept == \E k \in DOMAIN hdf : hdf[k].name = name
              IN  /\ (~name.na /\ Lower(name.s) = Lower(Name_Test_Spaced.s)) => ~kept
                  /\ name = Name_AutomationTestCo => ~kept
                  /\ name = Name_TestCompanyInc => kept

\* " Test " and "Test Company Inc" were loaded; only the second is left
C11_Witness ==
    /\ hpc = "named"
    /\ NamesOf(hloaded) = <<Name_Test_Spaced, Name_TestCompanyInc>>
    /\ NamesOf(hdf) = <<Name_TestCompanyInc>>


\* ======================================================== process_csv_graph
\* Times are minutes since 2025-12-15 00:00.
start_time == 960
end_time == 2880
indicator_time1 == 1180
indicator_time2 == 2655

\* A timestamp cell of the CSV: text in '%Y-%m-%d %H:%M', text in another
\* layout ('15/12/2025 19:40'), other text, or an empty cell.
Stamp(t) == [kind |-> "ymd_hm", t |-> t]
OtherLayout(t) == [kind |-> "dmy_hm", t |-> t]
SomeText == [kind |-> "text", t |-> 0]
EmptyCell == [kind |-> "empty", t |-> 0]

NaT == [nat |-> TRUE, t |-> 0]
\* pd.to_datetime(cell, format='%Y-%m-%d %H:%M', errors='coerce')
to_datetime_coerce(cell) ==
    IF cell.kind = "ymd_hm" THEN [nat |-> FALSE, t |-> cell.t] ELSE NaT

\* faulty variant: dropna(subset=['signupTimestamp'])
HasBothDates_signup_only(row) == ~row.signupTimestamp.nat

\* the rows df.dropna(subset=['signupTimestamp', 'Create Date']) keeps
HasBothDates(row) == ~row.signupTimestamp.nat /\ ~row.CreateDate.nat

\* (df['signupTimestamp'] >= a) & (df['signupTimestamp'] <= b)
SignupBetween(row, a, b) ==
    row.signupTimestamp.t >= a /\ row.signupTimestamp.t <= b

InRange(row) == SignupBetween(row, start_time, end_time)
BetweenIndicators(row) == SignupBetween(row, indicator_time1, indicator_time2)

\* (df['Create Date'] - df['signupTimestamp']).dt.total_seconds() / 60
time_diff_minutes(row) == row.CreateDate.t - row.signupTimestamp.t

SignupCells == {Stamp(900), Stamp(start_time), Stamp(indicator_time1),
                Stamp(end_time), Stamp(end_time + 1), OtherLayout(1200),
                SomeText, EmptyCell}
CreateCells == {Stamp(1195), Stamp(3000), SomeText, EmptyCell}
PlotRows == [signupTimestamp : SignupCells, CreateDate : CreateCells]

InitPlot ==
    /\ ppc = "loaded"
    /\ pdf \in SeqsUpTo(PlotRows, MaxRows)
    /\ ploaded = pdf
    /\ pcounts = NoCounts /\ pout = <<>>
    /\ alogs = <<>> /\ HistIdle /\ FetchIdle /\ GenIdle /\ AnIdle

\* lines 41-43
ParseDates ==
    /\ ppc = "loaded"
    /\ pdf' = [i \in DOMAIN pdf |->
                  [signupTimestamp |-> to_datetime_coerce(pdf[i].signupTimestamp),
                   CreateDate |-> to_datetime_coerce(pdf[i].CreateDate)]]
    /\ ppc' = "parsed"
    /\ UNCHANGED <<ploaded, pcounts, pout, alogs, hvars, fvars, gvars, avars>>

\* lines 45-50
DropInvalidDates ==
    /\ ppc = "parsed"
    /\ pdf' = SelectSeq(pdf, HasBothDates)
    /\ LET removed_count == Len(pdf) - Len(pdf')
       IN  /\ pcounts' = [initial_count |-> Len(pdf), removed_count |-> removed_count]
           /\ pout' = IF removed_count > 0
                      THEN Append(pout, <<"Removed rows with invalid dates", removed_count>>)
                      ELSE pout
    /\ ppc' = "valid"
    /\ UNCHANGED <<ploaded, alogs, hvars, fvars, gvars, avars>>

\* lines 52-60
FilterTimeRange ==
    /\ ppc = "valid"
    /\ pdf' = SelectSeq(pdf, InRange)
    /\ pcounts' = [initial_count |-> pcounts.initial_count,
                   removed_count |-> pcounts.removed_count,
                   before_filter |-> Len(pdf), after_filter |-> Len(pdf')]
    /\ pout' = Append(pout, <<"Records after filtering", Len(pdf')>>)
    /\ ppc' = "ranged"
    /\ UNCHANGED <<ploaded, alogs, hvars, fvars, gvars, avars>>

\* lines 62-85: the statistics of an empty frame print as nan
ReportDelays ==
    /\ ppc = "ranged"
    /\ LET diffs == [i \in DOMAIN pdf |-> time_diff_minutes(pdf[i])]
           between == SelectSeq(pdf, BetweenIndicators)
       IN  pout' = pout
               \o << <<"Time difference statistics", Len(diffs)>> >>
               \o (IF Len(between) > 0
                   THEN << <<"Average delay between indicators", Len(between)>> >>
                   ELSE << <<"No records found between indicators", 0>> >>)
    /\ ppc' = "reported"
    /\ UNCHANGED <<pdf, ploaded, pcounts, alogs, hvars, fvars, gvars, avars>>

\* lines 87-138 and 150: the plot is saved, "Processing completed successfully!"
SaveGraph ==
    /\ ppc = "reported"
    /\ pout' = Append(pout, <<"Processing completed successfully!", 0>>)
    /\ ppc' = "done"
    /\ UNCHANGED <<pdf, ploaded, pcounts, alogs, hvars, fvars, gvars, avars>>

NextPlot ==
    \/ ParseDates
    \/ DropInvalidDates
    \/ FilterTimeRange
    \/ ReportDelays
    \/ SaveGraph

SpecPlot == InitPlot /\ [][NextPlot]_vars

\* ------------------------------------------------------------------ C12
\* a cell that parses in '%Y-%m-%d %H:%M'
InFormat(cell) == cell.kind = "ymd_hm"
RowInFormat(row) == InFormat(row.signupTimestamp) /\ InFormat(row.CreateDate)

\* C12: the rows dropped are exactly the rows whose signup or creation
\* timestamp is not in the format; the count printed (whenever a row was
\* dropped) is their number; total rows = retained + excluded; and a run
\* with such rows goes on to its end.
C12_InvalidDatesDropped ==
    /\ ppc = "valid" =>
         LET good == SelectSeq(ploaded, RowInFormat)
             bad == Len(ploaded) - Len(good)
         IN  /\ Len(pdf) = Len(good)
             /\ \A k \in DOMAIN pdf :
                    /\ pdf[k].signupTimestamp = [nat |-> FALSE, t |-> good[k].signupTimestamp.t]
                    /\ pdf[k].CreateDate = [nat |-> FALSE, t |-> good[k].CreateDate.t]
             /\ pcounts.removed_count = bad
             /\ pcounts.initial_count = Len(ploaded)
             /\ Len(ploaded) = Len(pdf) + pcounts.removed_count
             /\ IF bad > 0
                THEN pout = << <<"Removed rows with invalid dates", bad>> >>
                ELSE pout = <<>>
    /\ ppc \in {"loaded", "parsed", "valid", "ranged", "reported", "done"}
    /\ ppc = "done" => pout[Len(pout)][1] = "Processing completed successfully!"

\* one row with a good signup and an unparseable creation date, one good row
C12_Witness ==
    /\ ppc = "done"
    /\ Len(ploaded) = 2
    /\ InFormat(ploaded[1].signupTimestamp) /\ ~InFormat(ploaded[1].CreateDate)
    /\ RowInFormat(ploaded[2])
    /\ pcounts.removed_count = 1


\* ------------------------------------------------------------------ C13
\* the "no data" case of the histogram builder: the CSV loaded, every date of
\* a row that passes the name filters parses, and no row passes all filters
HistNoData ==
    LET named == SelectSeq(hloaded, RetainedByName)
    IN  DatesParse(named) /\ RecentRows(named) = <<>>

\* C13: in the "no data" case (the input loaded, no record survives the
\* filters or the input has no rows) the Company Histogram Builder ends
\* without an unhandled error.
C13_NoDataExitsZero == HistNoData => hpc /= "crashed"


\* ================================================== extract_got_message_data
MaxLogs == 2

\* the "message" of a log record: a 'Got message' line, another line, JSON
\* null, or no such key (log.get("message", "") then gives "")
GotMessage(id, ts) == [kind |-> "got", message_id |-> id, schedule_timestamp |-> ts]
OtherMessage == [kind |-> "other", message_id |-> "", schedule_timestamp |-> 0]
NullMessage == [kind |-> "null", message_id |-> "", schedule_timestamp |-> 0]
NoMessage == [kind |-> "absent", message_id |-> "", schedule_timestamp |-> 0]

\* the "asctime" of a log record, in whole seconds: '... 19:30:00,594',
\* '... 19:30:00.594', '... 19:30:00', text in no accepted layout, or
\* missing / null / empty
Asctime(kind, t) == [kind |-> kind, t |-> t]
NoAsctime == [kind |-> "absent", t |-> 0]

\* GOT_MESSAGE_PATTERN.search(message): a match, no match, or TypeError on None
PatternSearch(message) ==
    CASE message.kind = "got" -> "match"
      [] message.kind = "null" -> "TypeError"
      [] OTHER -> "no match"

\* asctime_str.replace(",", ".")
ReplaceComma(asctime) ==
    IF asctime.kind = "comma" THEN Asctime("dot", asctime.t) ELSE asctime

\* strptime with "%Y-%m-%d %H:%M:%S.%f", then with "%Y-%m-%d %H:%M:%S";
\* the ValueError of the second attempt is not caught
parse_asctime(asctime_str) ==
    LET a == ReplaceComma(asctime_str)
    IN  CASE a.kind = "dot" -> [ok |-> TRUE, t |-> a.t]
          [] a.kind = "plain" -> [ok |-> TRUE, t |-> a.t]
          [] OTHER -> [ok |-> FALSE, t |-> 0]

\* the loop of extract_got_message_data over logs[i..]: the results, or the
\* exception that ends it
RECURSIVE ExtractLoop(_, _, _)
ExtractLoop(records, i, results) ==
    IF i > Len(records) THEN [raised |-> "", results |-> results]
    ELSE LET rec == records[i]
         IN  IF rec.asctime.kind = "absent" THEN ExtractLoop(records, i + 1, results)
             ELSE IF PatternSearch(rec.message) = "TypeError"
                  THEN [raised |-> "TypeError", results |-> results]
             ELSE IF PatternSearch(rec.message) = "no match"
                  THEN ExtractLoop(records, i + 1, results)
             ELSE LET actual_time == parse_asctime(rec.asctime)
                  IN  IF ~actual_time.ok
                      THEN [raised |-> "ValueError", results |-> results]
                      ELSE ExtractLoop(records, i + 1, Append(results,
                               [message_id |-> rec.message.message_id,
                                delay_seconds |-> actual_time.t
                                                    - rec.message.schedule_timestamp]))

extract_got_message_data(records) == ExtractLoop(records, 1, <<>>)

LogMessages == {GotMessage("A", 100), GotMessage("B", 100), OtherMessage,
                NullMessage, NoMessage}
LogAsctimes == {Asctime("comma", 105), Asctime("dot", 99), Asctime("plain", 105),
                Asctime("garbage", 0), NoAsctime}
LogRecords == [message : LogMessages, asctime : LogAsctimes]

InitExtract ==
    /\ apc = "loaded"
    /\ alogs \in SeqsUpTo(LogRecords, MaxLogs)
    /\ data = <<>> /\ extracted = <<>>
    /\ no_dedup \in BOOLEAN
    /\ filter_in = <<>> /\ skipped = [future |-> 0, large |-> 0]
    /\ stats = NoStats /\ aconsole = <<>>
    /\ FetchIdle /\ GenIdle /\ HistIdle /\ PlotIdle

\* data = extract_got_message_data(logs); an exception leaves main
ExtractGotMessageData ==
    /\ apc = "loaded"
    /\ LET r == extract_got_message_data(alogs)
       IN  IF r.raised = ""
           THEN /\ data' = r.results
                /\ extracted' = r.results
                /\ apc' = "extracted"
                /\ UNCHANGED aconsole
           ELSE /\ apc' = "crashed"
                /\ aconsole' = Append(aconsole, r.raised)
                /\ UNCHANGED <<data, extracted>>
    /\ UNCHANGED <<no_dedup, filter_in, skipped, stats, fvars, gvars, xvars>>

NextExtract ==
    \/ ExtractGotMessageData
    \/ Deduplicate
    \/ SkipDedup
    \/ FilterValidDelays
    \/ PrintStatistics

SpecExtract == InitExtract /\ [][NextExtract]_vars

\* ------------------------------------------------------------------ C14
\* C14: a log record whose message does not match the pattern, whose message
\* is null, or whose asctime is in neither accepted layout is skipped and the
\* extraction goes on with the remaining records: the run never ends in an
\* unhandled error.
C14_ParseErrorsNotFatal == apc /= "crashed"


====
